---------------------------- MODULE Spec2Model ----------------------------
(***************************************************************************)
(* The 2048 game of components/Game2048.tsx: the board functions           *)
(* (moveRowLeft, moveLeft/Right/Up/Down, addRandomTile, isGameOver) and    *)
(* the CanvasGame component that drives them from key presses and buttons. *)
(*                                                                         *)
(* Boards are sequences of rows, rows are sequences of cells; indices are  *)
(* the source's indices plus one.                                          *)
(***************************************************************************)
EXTENDS Integers, Sequences, FiniteSets, TLC

VARIABLES
    gameStarted,    \* useState<boolean>(false)
    board,          \* useState<number[][]>(getInitialBoard())
    score,          \* useState<number>(0)
    bestScore,      \* useState<number>(0)
    gameOver,       \* useState<boolean>(false)
    handleKeyDown,  \* the values captured by the registered keydown listener
    last,           \* what the last handled event did (history, for the properties)
    trail,          \* how much of RecordedSession the run has followed, -1 once it left it
    moves,          \* accepted moves made away from RecordedSession
    call,           \* SpecLine / SpecBoard: the function call under test
    flappyBird      \* the state, refs and clock of the FlappyBird component

vars == <<gameStarted, board, score, bestScore, gameOver, handleKeyDown,
          last, trail, moves, call, flappyBird>>

-----------------------------------------------------------------------------
(* Constants and bounds *)

GRID_SIZE == 4

\* Math.random() is modelled as k / RandomScale for k in RandomDraws.
RandomScale == 100

RandomDraws == {0, 95}

\* One Math.random() result in each sixteenth of [0, 1).
SpawnDraws ==
    {(k * RandomScale + GRID_SIZE * GRID_SIZE - 1) \div (GRID_SIZE * GRID_SIZE) :
        k \in 0..(GRID_SIZE * GRID_SIZE - 1)}

\* Accepted moves a run may make away from RecordedSession.
MaxMoves == 1

\* Largest number of tiles on the boards SpecBoard starts from.
MaxTiles == 2

\* Largest number of cells by which SpecBoard's other boards differ from a
\* full pattern.
MaxEdits == 1

\* Cell values of the lines SpecLine starts from, and of SpecBoard's tiles.
LineValues == {0, 2, 4, 8}

TileValues == {2, 4}

-----------------------------------------------------------------------------
(* Array helpers of the language *)

\* A new array holding the elements of f (a function on 1..n), each
\* computed once.
arrayOf(f) == SubSeq(f, 1, Len(f))

\* Array.prototype.reverse, on a copy
reverse(row) == arrayOf([i \in 1..Len(row) |-> row[Len(row) + 1 - i]])

\* Array.prototype.filter((val) => val !== 0)
filterNonZero(row) == SelectSeq(row, LAMBDA val : val # 0)

\* Math.floor(Math.random() * n), for Math.random() = k / RandomScale
floorRandomTimes(k, n) == (k * n) \div RandomScale

\* Math.random() < 0.9 ? 4 : 8
randomTileValueFourEight(k) == IF k * 10 < 9 * RandomScale THEN 4 ELSE 8

\* Math.random() < 0.9 ? 2 : 4
randomTileValue(k) == IF k * 10 < 9 * RandomScale THEN 2 ELSE 4

-----------------------------------------------------------------------------
(* Board functions *)

emptyBoard == arrayOf([i \in 1..GRID_SIZE |-> arrayOf([j \in 1..GRID_SIZE |-> 0])])

\* The cells in the order board.forEach / row.forEach visits them.
cellsInOrder ==
    arrayOf([n \in 1..(GRID_SIZE * GRID_SIZE) |->
        [x |-> ((n - 1) \div GRID_SIZE) + 1, y |-> ((n - 1) % GRID_SIZE) + 1]])

emptyCells(b) == SelectSeq(cellsInOrder, LAMBDA c : b[c.x][c.y] = 0)

\* addRandomTile choosing among all the cells, not among the empty ones.
addRandomTileAnyCell(b, r1, r2) ==
    LET c == cellsInOrder[floorRandomTimes(r1, Len(cellsInOrder)) + 1]
        written == [b EXCEPT ![c.x][c.y] = randomTileValue(r2)]
    IN [ret |-> written, arg |-> written, fresh |-> TRUE, placed |-> TRUE]

\* addRandomTile(board) with the two Math.random() results r1 (cell) and r2
\* (value).  ret is the returned board, arg the contents of the caller's
\* board after the call (the function writes the tile into its argument
\* before copying), fresh whether the returned array is a new object.
addRandomTile(b, r1, r2) ==
    LET cells == emptyCells(b) IN
    IF Len(cells) = 0
    THEN [ret |-> b, arg |-> b, fresh |-> FALSE, placed |-> FALSE]
    ELSE LET c == cells[floorRandomTimes(r1, Len(cells)) + 1]
             written == [b EXCEPT ![c.x][c.y] = randomTileValue(r2)]
         IN [ret |-> written, arg |-> written, fresh |-> TRUE, placed |-> TRUE]

\* getInitialBoard returning the board of zeros, without addRandomTile.
getInitialBoardNoTile(r1, r2, r3, r4) == emptyBoard

\* getInitialBoard with a single addRandomTile.
getInitialBoardOneTile(r1, r2, r3, r4) ==
    addRandomTile(emptyBoard, r1, r2).ret

getInitialBoard(r1, r2, r3, r4) ==
    addRandomTile(addRandomTile(emptyBoard, r1, r2).ret, r3, r4).ret

\* arraysEqual comparing the first row only.
arraysEqualFirstRow(a, b) ==
    \A j \in 1..Len(a[1]) : a[1][j] = b[1][j]

arraysEqual(a, b) ==
    \A i \in 1..Len(a) : \A j \in 1..Len(a[i]) : a[i][j] = b[i][j]

transpose(b) ==
    arrayOf([i \in 1..Len(b[1]) |-> arrayOf([r \in 1..Len(b) |-> b[r][i]])])

\* The for loop of moveRowLeft with "newRow[i] += 2" for "newRow[i] *= 2".
RECURSIVE mergeLoopAddsTwo(_, _, _)
mergeLoopAddsTwo(newRow, i, rowScore) ==
    IF ~(i < Len(newRow))
    THEN [newRow |-> newRow, score |-> rowScore]
    ELSE IF newRow[i] = newRow[i + 1]
         THEN LET sum == newRow[i] + 2 IN
              mergeLoopAddsTwo([newRow EXCEPT ![i] = sum, ![i + 1] = 0],
                               i + 2, rowScore + sum)
         ELSE mergeLoopAddsTwo(newRow, i + 1, rowScore)

\* The for loop of moveRowLeft without "newRow[i] *= 2": the second tile of
\* a pair is removed and the first keeps its value.
RECURSIVE mergeLoopNotDoubled(_, _, _)
mergeLoopNotDoubled(newRow, i, rowScore) ==
    IF ~(i < Len(newRow))
    THEN [newRow |-> newRow, score |-> rowScore]
    ELSE IF newRow[i] = newRow[i + 1]
         THEN mergeLoopNotDoubled([newRow EXCEPT ![i + 1] = 0],
                                  i + 2, rowScore + newRow[i])
         ELSE mergeLoopNotDoubled(newRow, i + 1, rowScore)

\* The for loop of moveRowLeft; i is the source's i plus one.
RECURSIVE mergeLoop(_, _, _)
mergeLoop(newRow, i, rowScore) ==
    IF ~(i < Len(newRow))
    THEN [newRow |-> newRow, score |-> rowScore]
    ELSE IF newRow[i] = newRow[i + 1]
         THEN LET doubled == newRow[i] * 2 IN
              mergeLoop([newRow EXCEPT ![i] = doubled, ![i + 1] = 0],
                        i + 2, rowScore + doubled)
         ELSE mergeLoop(newRow, i + 1, rowScore)

\* while (newRow.length < GRID_SIZE) newRow.push(0)
padRow(row) ==
    IF Len(row) < GRID_SIZE
    THEN row \o arrayOf([k \in 1..(GRID_SIZE - Len(row)) |-> 0])
    ELSE row

\* moveRowLeft without the second filter: the zeros left by merges stay.
moveRowLeftOneFilter(row) ==
    LET merged == mergeLoop(filterNonZero(row), 1, 0) IN
    [newRow |-> padRow(merged.newRow), score |-> merged.score]

moveRowLeft(row) ==
    LET merged == mergeLoop(filterNonZero(row), 1, 0) IN
    [newRow |-> padRow(filterNonZero(merged.newRow)), score |-> merged.score]

\* The loop of moveLeft from row i on: push each moved row, add its score.
RECURSIVE moveLeftLoop(_, _, _, _)
moveLeftLoop(b, i, newBoard, totalScore) ==
    IF i > Len(b)
    THEN [newBoard |-> newBoard, totalScore |-> totalScore]
    ELSE LET moved == moveRowLeft(b[i]) IN
         moveLeftLoop(b, i + 1, Append(newBoard, moved.newRow),
                      totalScore + moved.score)

moveLeft(b) == moveLeftLoop(b, 1, <<>>, 0)

\* The loop of moveRight from row i on.
RECURSIVE moveRightLoop(_, _, _, _)
moveRightLoop(b, i, newBoard, totalScore) ==
    IF i > Len(b)
    THEN [newBoard |-> newBoard, totalScore |-> totalScore]
    ELSE LET moved == moveRowLeft(reverse(b[i])) IN
         moveRightLoop(b, i + 1, Append(newBoard, reverse(moved.newRow)),
                       totalScore + moved.score)

\* moveRight pushing newRow as moveRowLeft returned it, not reversed back.
moveRightNotReversedBack(b) ==
    [newBoard   |-> arrayOf([i \in 1..Len(b) |-> moveRowLeft(reverse(b[i])).newRow]),
     totalScore |-> moveRightLoop(b, 1, <<>>, 0).totalScore]

moveRight(b) == moveRightLoop(b, 1, <<>>, 0)

\* moveUp returning the moved board as it is, not transposed back.
moveUpNotTransposedBack(b) ==
    LET res == moveLeft(transpose(b)) IN
    [newBoard |-> res.newBoard, totalScore |-> res.totalScore]

moveUp(b) ==
    LET res == moveLeft(transpose(b)) IN
    [newBoard |-> transpose(res.newBoard), totalScore |-> res.totalScore]

moveDown(b) ==
    LET res == moveRight(transpose(b)) IN
    [newBoard |-> transpose(res.newBoard), totalScore |-> res.totalScore]

\* isGameOver without the tests of the neighbours: a full board is over.
isGameOverFullOnly(b) ==
    ~ \E i \in 1..GRID_SIZE : \E j \in 1..GRID_SIZE : b[i][j] = 0

\* isGameOver without the test of the cell below.
isGameOverRowsOnly(b) ==
    IF \E i \in 1..GRID_SIZE : \E j \in 1..GRID_SIZE : b[i][j] = 0
    THEN FALSE
    ELSE ~ \E i \in 1..GRID_SIZE : \E j \in 1..GRID_SIZE :
              (j < GRID_SIZE /\ b[i][j] = b[i][j + 1])

isGameOver(b) ==
    IF \E i \in 1..GRID_SIZE : \E j \in 1..GRID_SIZE : b[i][j] = 0
    THEN FALSE
    ELSE ~ \E i \in 1..GRID_SIZE : \E j \in 1..GRID_SIZE :
              \/ (j < GRID_SIZE /\ b[i][j] = b[i][j + 1])
              \/ (i < GRID_SIZE /\ b[i][j] = b[i + 1][j])

-----------------------------------------------------------------------------
(* The line and move functions of the second 2048 module, the one at the   *)
(* end of components/GameFlappyBird.tsx.  Its moveLeft, moveRight, moveUp  *)
(* and moveDown are named moveLeftSlide, ... here.                         *)

\* What reading an array past its end gives; no cell holds it.
undefined == -1

\* nonZero[i], for i the source's index plus one.
nonZeroAt(nonZero, i) == IF i \in 1..Len(nonZero) THEN nonZero[i] ELSE undefined

\* The for loop of slideRow without "i++" after a merge.
RECURSIVE slideLoopNoSkip(_, _, _, _)
slideLoopNoSkip(nonZero, i, result, scoreGained) ==
    IF ~(i <= Len(nonZero))
    THEN [newRow |-> result, scoreGained |-> scoreGained]
    ELSE IF nonZeroAt(nonZero, i) = nonZeroAt(nonZero, i + 1)
         THEN LET mergedValue == nonZero[i] * 2 IN
              slideLoopNoSkip(nonZero, i + 1, Append(result, mergedValue),
                              scoreGained + mergedValue)
         ELSE slideLoopNoSkip(nonZero, i + 1, Append(result, nonZero[i]), scoreGained)

\* The for loop of slideRow; i is the source's i plus one.
RECURSIVE slideLoop(_, _, _, _)
slideLoop(nonZero, i, result, scoreGained) ==
    IF ~(i <= Len(nonZero))
    THEN [newRow |-> result, scoreGained |-> scoreGained]
    ELSE IF nonZeroAt(nonZero, i) = nonZeroAt(nonZero, i + 1)
         THEN LET mergedValue == nonZero[i] * 2 IN
              slideLoop(nonZero, i + 2, Append(result, mergedValue),
                        scoreGained + mergedValue)
         ELSE slideLoop(nonZero, i + 1, Append(result, nonZero[i]), scoreGained)

slideRow(row) ==
    LET slid == slideLoop(filterNonZero(row), 1, <<>>, 0) IN
    [newRow |-> padRow(slid.newRow), scoreGained |-> slid.scoreGained]

\* board.map(row => ...) of moveLeft, from row i on.
RECURSIVE moveLeftSlideMap(_, _, _, _)
moveLeftSlideMap(b, i, newBoard, scoreGained) ==
    IF i > Len(b)
    THEN [board |-> newBoard, scoreGained |-> scoreGained]
    ELSE LET slid == slideRow(b[i]) IN
         moveLeftSlideMap(b, i + 1, Append(newBoard, slid.newRow),
                          scoreGained + slid.scoreGained)

moveLeftSlide(b) == moveLeftSlideMap(b, 1, <<>>, 0)

RECURSIVE moveRightSlideMap(_, _, _, _)
moveRightSlideMap(b, i, newBoard, scoreGained) ==
    IF i > Len(b)
    THEN [board |-> newBoard, scoreGained |-> scoreGained]
    ELSE LET slid == slideRow(reverse(b[i])) IN
         moveRightSlideMap(b, i + 1, Append(newBoard, reverse(slid.newRow)),
                           scoreGained + slid.scoreGained)

moveRightSlide(b) == moveRightSlideMap(b, 1, <<>>, 0)

moveUpSlide(b) ==
    LET res == moveLeftSlide(transpose(b)) IN
    [board |-> transpose(res.board), scoreGained |-> res.scoreGained]

moveDownSlide(b) ==
    LET res == moveRightSlide(transpose(b)) IN
    [board |-> transpose(res.board), scoreGained |-> res.scoreGained]

\* The move function the second module's handleMove picks for a direction.
moveFunc(direction, b) ==
    CASE direction = "up"    -> moveUpSlide(b)
      [] direction = "down"  -> moveDownSlide(b)
      [] direction = "left"  -> moveLeftSlide(b)
      [] direction = "right" -> moveRightSlide(b)

-----------------------------------------------------------------------------
(* The board functions on array objects.  A memory is a sequence of arrays *)
(* and an array is referred to by its index in it; an array of numbers     *)
(* holds numbers, an array of arrays holds references.  Each function      *)
(* takes the memory and the reference of its argument and returns the      *)
(* memory it leaves and the reference it returns: filter, map, the spread  *)
(* and Array.from make a new array, reverse, push and an indexed           *)
(* assignment write into the array they are applied to.                    *)

\* A memory holding the board b alone: its rows, then the array of rows.
heapOf(b) == Append(b, arrayOf([i \in 1..Len(b) |-> i]))

boardRef == GRID_SIZE + 1

\* The contents of the board at reference ref.
boardAt(mem, ref) == arrayOf([i \in 1..Len(mem[ref]) |-> mem[mem[ref][i]]])

\* moveRowLeft with "let newRow = row" for the first filter: the loop and
\* its writes work on the row passed in.
moveRowLeftMemNoCopy(mem, row) ==
    LET merged == mergeLoop(mem[row], 1, 0)
        m2     == [mem EXCEPT ![row] = merged.newRow]
        m3     == Append(m2, padRow(filterNonZero(m2[row])))
    IN [mem |-> m3, newRow |-> Len(m3), score |-> merged.score]

moveRowLeftMem(mem, row) ==
    LET m1     == Append(mem, filterNonZero(mem[row]))
        merged == mergeLoop(m1[Len(m1)], 1, 0)
        m2     == [m1 EXCEPT ![Len(m1)] = merged.newRow]
        m3     == Append(m2, padRow(filterNonZero(m2[Len(m1)])))
    IN [mem |-> m3, newRow |-> Len(m3), score |-> merged.score]

RECURSIVE moveLeftMemLoop(_, _, _, _, _)
moveLeftMemLoop(mem, b, i, newBoard, totalScore) ==
    IF i > Len(mem[b])
    THEN [mem |-> mem, newBoard |-> newBoard, totalScore |-> totalScore]
    ELSE LET moved == moveRowLeftMem(mem, mem[b][i]) IN
         moveLeftMemLoop([moved.mem EXCEPT ![newBoard] = Append(@, moved.newRow)],
                         b, i + 1, newBoard, totalScore + moved.score)

moveLeftMem(mem, b) == moveLeftMemLoop(Append(mem, <<>>), b, 1, Len(mem) + 1, 0)

\* The loop of moveRight with "board[i].reverse()" for
\* "[...board[i]].reverse()": the row of the board is reversed itself.
RECURSIVE moveRightMemLoopNoSpread(_, _, _, _, _)
moveRightMemLoopNoSpread(mem, b, i, newBoard, totalScore) ==
    IF i > Len(mem[b])
    THEN [mem |-> mem, newBoard |-> newBoard, totalScore |-> totalScore]
    ELSE LET reversedRow == mem[b][i]
             m2    == [mem EXCEPT ![reversedRow] = reverse(@)]
             moved == moveRowLeftMem(m2, reversedRow)
             m3    == [moved.mem EXCEPT ![moved.newRow] = reverse(@)]
         IN moveRightMemLoopNoSpread([m3 EXCEPT ![newBoard] = Append(@, moved.newRow)],
                                     b, i + 1, newBoard, totalScore + moved.score)

RECURSIVE moveRightMemLoop(_, _, _, _, _)
moveRightMemLoop(mem, b, i, newBoard, totalScore) ==
    IF i > Len(mem[b])
    THEN [mem |-> mem, newBoard |-> newBoard, totalScore |-> totalScore]
    ELSE LET m1    == Append(mem, mem[mem[b][i]])
             reversedRow == Len(m1)
             m2    == [m1 EXCEPT ![reversedRow] = reverse(@)]
             moved == moveRowLeftMem(m2, reversedRow)
             m3    == [moved.mem EXCEPT ![moved.newRow] = reverse(@)]
         IN moveRightMemLoop([m3 EXCEPT ![newBoard] = Append(@, moved.newRow)],
                             b, i + 1, newBoard, totalScore + moved.score)

moveRightMem(mem, b) == moveRightMemLoop(Append(mem, <<>>), b, 1, Len(mem) + 1, 0)

\* board[0].map((_, i) => board.map((row) => row[i])): a new array per
\* column, then the array holding them.
transposeMem(mem, b) ==
    LET columns == transpose(boardAt(mem, b))
        m1      == mem \o columns
    IN [mem |-> Append(m1, arrayOf([i \in 1..Len(columns) |-> Len(mem) + i])),
        ref |-> Len(m1) + 1]

moveUpMem(mem, b) ==
    LET transposed == transposeMem(mem, b)
        res        == moveLeftMem(transposed.mem, transposed.ref)
        back       == transposeMem(res.mem, res.newBoard)
    IN [mem |-> back.mem, newBoard |-> back.ref, totalScore |-> res.totalScore]

moveDownMem(mem, b) ==
    LET transposed == transposeMem(mem, b)
        res        == moveRightMem(transposed.mem, transposed.ref)
        back       == transposeMem(res.mem, res.newBoard)
    IN [mem |-> back.mem, newBoard |-> back.ref, totalScore |-> res.totalScore]

\* board.map((row) => [...row]): a new array per row, then the array
\* holding them.
copyRowsMem(mem, b) ==
    LET m1 == mem \o boardAt(mem, b) IN
    [mem |-> Append(m1, arrayOf([i \in 1..Len(mem[b]) |-> Len(mem) + i])),
     ref |-> Len(m1) + 1]

\* addRandomTile: board[x][y] = ... writes into a row of the board passed
\* in, and the copy is made after the write.
addRandomTileMem(mem, b, r1, r2) ==
    LET cells == emptyCells(boardAt(mem, b)) IN
    IF Len(cells) = 0
    THEN [mem |-> mem, ref |-> b]
    ELSE LET c  == cells[floorRandomTimes(r1, Len(cells)) + 1]
             m1 == [mem EXCEPT ![mem[b][c.x]][c.y] = randomTileValue(r2)]
         IN copyRowsMem(m1, b)

\* Array.from({ length: GRID_SIZE }, () => Array(GRID_SIZE).fill(0)), then
\* the two addRandomTile calls.
getInitialBoardMem(mem, r1, r2, r3, r4) ==
    LET m1    == Append(mem \o emptyBoard,
                        arrayOf([i \in 1..GRID_SIZE |-> Len(mem) + i]))
        first == addRandomTileMem(m1, Len(m1), r1, r2)
    IN addRandomTileMem(first.mem, first.ref, r3, r4)

-----------------------------------------------------------------------------
(* The CanvasGame component *)

Directions == {"up", "down", "left", "right"}

\* A string that is none of the four directions.
OtherTokens == {"diagonal"}

\* The keys the model presses: the four arrows and one key outside the map.
Keys == {"ArrowUp", "ArrowDown", "ArrowLeft", "ArrowRight", "Enter"}

\* The moves map of handleKeyDown; "" is the undefined of a key outside it.
keyMoves(key) ==
    CASE key = "ArrowUp"    -> "up"
      [] key = "ArrowDown"  -> "down"
      [] key = "ArrowLeft"  -> "left"
      [] key = "ArrowRight" -> "right"
      [] OTHER              -> ""

\* The switch of handleMove; only called for one of the four directions.
moveResult(direction, b) ==
    CASE direction = "up"    -> moveUp(b)
      [] direction = "down"  -> moveDown(b)
      [] direction = "left"  -> moveLeft(b)
      [] direction = "right" -> moveRight(b)

\* What a handler call that sets no state returns.
noUpdate(kind, direction) ==
    [kind |-> kind, direction |-> direction, accepted |-> FALSE,
     score |-> 0, setBest |-> FALSE, board |-> emptyBoard,
     setGameOver |-> FALSE, delta |-> 0, placed |-> FALSE]

\* The accepted branch calling setScore(totalScore): the score of the move
\* alone, not added to the score so far.
acceptMoveScoreOfMove(c, direction, res, r1, r2) ==
    LET tile     == addRandomTile(res.newBoard, r1, r2)
        newScore == res.totalScore
    IN [kind        |-> "accepted",
        direction   |-> direction,
        accepted    |-> TRUE,
        score       |-> newScore,
        setBest     |-> newScore > c.bestScore,
        board       |-> tile.ret,
        setGameOver |-> isGameOver(tile.ret),
        delta       |-> res.totalScore,
        placed      |-> tile.placed]

\* The accepted branch with "newScore < bestScore" for "newScore > bestScore".
acceptMoveBestWhenLower(c, direction, res, r1, r2) ==
    LET tile     == addRandomTile(res.newBoard, r1, r2)
        newScore == c.score + res.totalScore
    IN [kind        |-> "accepted",
        direction   |-> direction,
        accepted    |-> TRUE,
        score       |-> newScore,
        setBest     |-> newScore < c.bestScore,
        board       |-> tile.ret,
        setGameOver |-> isGameOver(tile.ret),
        delta       |-> res.totalScore,
        placed      |-> tile.placed]

\* The accepted branch calling setBoard(newBoard) without addRandomTile.
acceptMoveNoTile(c, direction, res, r1, r2) ==
    LET newScore == c.score + res.totalScore
    IN [kind        |-> "accepted",
        direction   |-> direction,
        accepted    |-> TRUE,
        score       |-> newScore,
        setBest     |-> newScore > c.bestScore,
        board       |-> res.newBoard,
        setGameOver |-> isGameOver(res.newBoard),
        delta       |-> res.totalScore,
        placed      |-> FALSE]

\* The body of "if (!arraysEqual(board, newBoard))" in handleMove, for the
\* moved board and score res; r1 and r2 are the Math.random() results of
\* addRandomTile.
acceptMove(c, direction, res, r1, r2) ==
    LET tile     == addRandomTile(res.newBoard, r1, r2)
        newScore == c.score + res.totalScore
    IN [kind        |-> "accepted",
        direction   |-> direction,
        accepted    |-> TRUE,
        score       |-> newScore,
        setBest     |-> newScore > c.bestScore,
        board       |-> tile.ret,
        setGameOver |-> isGameOver(tile.ret),
        delta       |-> res.totalScore,
        placed      |-> tile.placed]

\* handleMove without "if (gameOver) return".
handleMoveNoGuard(c, direction, r1, r2) ==
    IF direction \notin Directions THEN noUpdate("rejected", direction)
    ELSE LET res == moveResult(direction, c.board) IN
         IF arraysEqual(c.board, res.newBoard) THEN noUpdate("noop", direction)
         ELSE acceptMove(c, direction, res, r1, r2)

\* handleMove never calling setBestScore.
handleMoveBestNotSet(c, direction, r1, r2) ==
    IF c.gameOver THEN noUpdate("ignored", direction)
    ELSE [handleMoveNoGuard(c, direction, r1, r2) EXCEPT !.setBest = FALSE]

\* handleMove calling setBestScore(newScore) whatever bestScore is.
handleMoveBestAlwaysSet(c, direction, r1, r2) ==
    IF c.gameOver THEN noUpdate("ignored", direction)
    ELSE LET calls == handleMoveNoGuard(c, direction, r1, r2) IN
         IF calls.accepted THEN [calls EXCEPT !.setBest = TRUE] ELSE calls

\* handleMove testing isGameOver on the moved board, before the new tile.
handleMoveOverBeforeTile(c, direction, r1, r2) ==
    IF c.gameOver THEN noUpdate("ignored", direction)
    ELSE LET calls == handleMoveNoGuard(c, direction, r1, r2) IN
         IF calls.accepted
         THEN [calls EXCEPT !.setGameOver =
                     isGameOver(moveResult(direction, c.board).newBoard)]
         ELSE calls

\* handleMove with "default: moved = moveLeft(board)" for "default: return".
handleMoveDefaultLeft(c, direction, r1, r2) ==
    IF c.gameOver THEN noUpdate("ignored", direction)
    ELSE [handleMoveNoGuard(c, IF direction \in Directions THEN direction ELSE "left",
                            r1, r2) EXCEPT !.direction = direction]

\* handleMove(direction), run in a render whose state values are c (board,
\* score, bestScore, gameOver).  The result lists the state setters called.
handleMove(c, direction, r1, r2) ==
    IF c.gameOver THEN noUpdate("ignored", direction)
    ELSE IF direction \notin Directions THEN noUpdate("rejected", direction)
    ELSE LET res == moveResult(direction, c.board) IN
         IF arraysEqual(c.board, res.newBoard) THEN noUpdate("noop", direction)
         ELSE acceptMove(c, direction, res, r1, r2)

\* The listener: if (moves[e.key]) handleMove(moves[e.key])
keyDown(c, key, r1, r2) ==
    IF keyMoves(key) # "" THEN handleMove(c, keyMoves(key), r1, r2)
    ELSE noUpdate("nokey", "")

\* The switch of handleMove on array objects.
moveResultMem(direction, mem, b) ==
    CASE direction = "up"    -> moveUpMem(mem, b)
      [] direction = "down"  -> moveDownMem(mem, b)
      [] direction = "left"  -> moveLeftMem(mem, b)
      [] direction = "right" -> moveRightMem(mem, b)

\* handleMove on array objects, run on a memory that holds the board of c
\* at boardRef: mem is the memory the handler leaves, set the reference it
\* passes to setBoard (0 when it does not call setBoard).
handleMoveMem(c, direction, r1, r2) ==
    LET mem == heapOf(c.board) IN
    IF c.gameOver \/ direction \notin Directions THEN [mem |-> mem, set |-> 0]
    ELSE LET res == moveResultMem(direction, mem, boardRef) IN
         IF arraysEqual(boardAt(res.mem, boardRef), boardAt(res.mem, res.newBoard))
         THEN [mem |-> res.mem, set |-> 0]
         ELSE LET tile == addRandomTileMem(res.mem, res.newBoard, r1, r2) IN
              [mem |-> tile.mem, set |-> tile.ref]

keyDownMem(c, key, r1, r2) ==
    IF keyMoves(key) # "" THEN handleMoveMem(c, keyMoves(key), r1, r2)
    ELSE [mem |-> heapOf(c.board), set |-> 0]

\* newGame on array objects, run on a memory that holds the board b.
newGameMem(b, r1, r2, r3, r4) ==
    LET init == getInitialBoardMem(heapOf(b), r1, r2, r3, r4) IN
    [mem |-> init.mem, set |-> init.ref]

\* Whether a handler that found the board b wrote into its array or into
\* one of its rows, and whether the board it passed to setBoard is that
\* array or holds one of those rows.
wroteBoard(b, effect) == SubSeq(effect.mem, 1, boardRef) # heapOf(b)

sharesBoard(effect) ==
    /\ effect.set # 0
    /\ \/ effect.set <= boardRef
       \/ \E i \in 1..Len(effect.mem[effect.set]) : effect.mem[effect.set][i] <= boardRef

\* The values a render's handleMove closes over.
Captured == [board |-> board, score |-> score, bestScore |-> bestScore,
             gameOver |-> gameOver]

\* useCallback(..., []): the listener registered at mount is never replaced.
nextListenerNoDeps(boardSet) == handleKeyDown

\* useCallback(..., [board, score, gameOver]) followed by the effect that
\* re-registers the listener: the listener is replaced by the new render's
\* when one of the dependencies changed, and kept otherwise.  A board set by
\* setBoard is always a new array, so boardSet stands for "board changed".
nextListener(boardSet) ==
    IF boardSet \/ score' # score \/ gameOver' # gameOver
    THEN [board |-> board', score |-> score', bestScore |-> bestScore',
          gameOver |-> gameOver']
    ELSE handleKeyDown

-----------------------------------------------------------------------------
(* A recorded session: the draws of the mount and sixteen key presses,     *)
(* each with the draws of its spawn.  It ends on a board with no move      *)
(* left.  The exploration follows it and leaves it by at most MaxMoves     *)
(* accepted moves.                                                         *)

SessionStart == <<95, 95, 0, 0>>

RecordedSession ==
    << <<"ArrowUp", 95, 0>>,     <<"ArrowUp", 0, 95>>,    <<"ArrowRight", 95, 95>>,
       <<"ArrowUp", 0, 0>>,      <<"ArrowLeft", 0, 95>>,  <<"ArrowDown", 95, 0>>,
       <<"ArrowUp", 0, 95>>,     <<"ArrowRight", 95, 0>>, <<"ArrowLeft", 95, 95>>,
       <<"ArrowUp", 95, 0>>,     <<"ArrowUp", 0, 0>>,     <<"ArrowLeft", 95, 0>>,
       <<"ArrowUp", 0, 95>>,     <<"ArrowRight", 0, 95>>, <<"ArrowRight", 0, 0>>,
       <<"ArrowLeft", 95, 95>> >>

onSession(key, r1, r2) ==
    /\ trail >= 0
    /\ trail < Len(RecordedSession)
    /\ RecordedSession[trail + 1] = <<key, r1, r2>>

\* The value call holds while the component runs.
noCall == [fn |-> "none"]

-----------------------------------------------------------------------------
(* The FlappyBird component (GameFlappyBird.tsx).  Times are milliseconds, *)
(* velocities pixels per second, the bird's y pixels; a pipe pair's x is   *)
(* held in 1/XScale pixel, the resolution at which the pipe speed          *)
(* 100 + timestamp / 30000 is exact for the frame times of FrameDeltas.    *)
(* A click, or an animation frame, with the render and the effect that     *)
(* follow it is one step: the effect cancels the pending frame and         *)
(* requests one for the new updateGame whenever gameState or paused has    *)
(* changed.                                                                *)

CANVAS_WIDTH == 400
CANVAS_HEIGHT == 600
BIRD_RADIUS == 15
PIPE_WIDTH == 60
PIPE_SPACING == 250
NUM_PIPES == (CANVAS_WIDTH + PIPE_SPACING - 1) \div PIPE_SPACING + 1
GRAVITY == 800
FLAP_IMPULSE == -300
MAX_DOWN_VELOCITY == 400

XScale == 3000
MaxDetours == 4
\* Time between two animation frames: a slow frame, and two frames that
\* come after the tab was in the background (no frame runs meanwhile).
FrameDeltas == {200, 4500, 12000}

\* The draws of one initPipes or one frame: the same draw for every pair, or
\* the draws alternating.
PipeDraws ==
    {arrayOf([i \in 1..NUM_PIPES |-> k]) : k \in RandomDraws}
        \cup {arrayOf([i \in 1..NUM_PIPES |-> IF i % 2 = 1 THEN k ELSE 0]) :
                 k \in RandomDraws}

\* Math.random() * (CANVAS_HEIGHT - 300) + 150, to the pixel below
randomBottomY(k) == (k * (CANVAS_HEIGHT - 300)) \div RandomScale + 150

initPipes(rs) ==
    arrayOf([i \in 1..NUM_PIPES |->
        [x |-> (CANVAS_WIDTH + (i - 1) * PIPE_SPACING) * XScale,
         bottomY |-> randomBottomY(rs[i]), gap |-> 110, scored |-> FALSE]])

initialBird == [x |-> 50, y |-> CANVAS_HEIGHT \div 2, velocityY |-> 0]

noTick == [op |-> "mount", deltaTime |-> 0, recycled |-> {}, passed |-> {}]

\* The component after its first render.
FlappyMount ==
    [gameState |-> "start", score |-> 0, paused |-> FALSE,
     birdRef |-> initialBird, pipesRef |-> <<>>, lastTimestampRef |-> 0,
     now |-> 0, frames |-> 0, tick |-> noTick, script |-> 0, detours |-> 0]

resetGame(s, rs) ==
    [s EXCEPT !.birdRef = initialBird, !.pipesRef = initPipes(rs), !.score = 0,
              !.lastTimestampRef = 0, !.gameState = "running", !.paused = FALSE]

handleJumpWhilePaused(s, rs) ==
    IF s.gameState = "start" \/ s.gameState = "gameover" THEN resetGame(s, rs)
    ELSE IF s.gameState = "running"
         THEN [s EXCEPT !.birdRef.velocityY = FLAP_IMPULSE]
         ELSE s

handleJump(s, rs) ==
    IF s.gameState = "start" \/ s.gameState = "gameover" THEN resetGame(s, rs)
    ELSE IF s.gameState = "running" /\ ~s.paused
         THEN [s EXCEPT !.birdRef.velocityY = FLAP_IMPULSE]
         ELSE s

togglePause(s) ==
    IF s.gameState = "running"
    THEN [s EXCEPT !.paused = ~s.paused, !.lastTimestampRef = 0]
    ELSE s

\* velocityY += GRAVITY * deltaTime, clamped to MAX_DOWN_VELOCITY
fall(velocityY, deltaTime) ==
    LET v == velocityY + (GRAVITY * deltaTime) \div 1000
    IN  IF v > MAX_DOWN_VELOCITY THEN MAX_DOWN_VELOCITY ELSE v

\* currentPipeSpeed * deltaTime, in 1/XScale pixel; the product is taken in
\* two parts to stay within 32 bits.
pipeTravel(timestamp, deltaTime) ==
    LET currentPipeSpeed == 100 * XScale + (timestamp * XScale) \div 30000
    IN  (currentPipeSpeed \div 1000) * deltaTime
          + ((currentPipeSpeed % 1000) * deltaTime) \div 1000

\* The first forEach: move the pair, reposition it once it is off screen.
movePipe(pipe, travel, k) ==
    LET x == pipe.x - travel
    IN  IF x + PIPE_WIDTH * XScale < 0
        THEN [x |-> x + NUM_PIPES * PIPE_SPACING * XScale,
              bottomY |-> randomBottomY(k), gap |-> 110, scored |-> FALSE]
        ELSE [pipe EXCEPT !.x = x]

offScreen(pipe, travel) == pipe.x - travel + PIPE_WIDTH * XScale < 0

\* The collision test of the second forEach.
hitsPipe(bird, pipe) ==
    /\ (bird.x + BIRD_RADIUS) * XScale > pipe.x
    /\ (bird.x - BIRD_RADIUS) * XScale < pipe.x + PIPE_WIDTH * XScale
    /\ \/ bird.y - BIRD_RADIUS < pipe.bottomY - pipe.gap
       \/ bird.y + BIRD_RADIUS > pipe.bottomY

\* The scoring test of the second forEach.
passedPipe(bird, pipe) ==
    ~pipe.scored /\ bird.x * XScale > pipe.x + PIPE_WIDTH * XScale

\* The boundary checks, made in every frame.
boundBird(bird) ==
    IF bird.y + BIRD_RADIUS > CANVAS_HEIGHT
    THEN [bird EXCEPT !.y = CANVAS_HEIGHT - BIRD_RADIUS, !.velocityY = 0]
    ELSE IF bird.y - BIRD_RADIUS < 0
         THEN [bird EXCEPT !.y = BIRD_RADIUS, !.velocityY = 0]
         ELSE bird

updateGame(s, timestamp, rs) ==
    LET lastTimestamp == IF s.lastTimestampRef = 0 THEN timestamp
                         ELSE s.lastTimestampRef
        deltaTime == timestamp - lastTimestamp
        active == s.gameState = "running" /\ ~s.paused
        velocityY == fall(s.birdRef.velocityY, deltaTime)
        bird == IF active
                THEN [s.birdRef EXCEPT !.velocityY = velocityY,
                                       !.y = @ + (velocityY * deltaTime) \div 1000]
                ELSE s.birdRef
        travel == pipeTravel(timestamp, deltaTime)
        idx == 1..Len(s.pipesRef)
        moved == arrayOf([i \in idx |-> movePipe(s.pipesRef[i], travel, rs[i])])
        recycled == {i \in idx : active /\ offScreen(s.pipesRef[i], travel)}
        passed == {i \in idx : active /\ passedPipe(bird, moved[i])}
        hit == active /\ \E i \in idx : hitsPipe(bird, moved[i])
        pipes == arrayOf([i \in idx |->
                    IF i \in passed THEN [moved[i] EXCEPT !.scored = TRUE]
                    ELSE moved[i]])
    IN  [s EXCEPT !.lastTimestampRef = timestamp,
                  !.birdRef = boundBird(bird),
                  !.pipesRef = IF active THEN pipes ELSE s.pipesRef,
                  !.score = @ + Cardinality(passed),
                  !.gameState = IF hit \/ bird.y + BIRD_RADIUS > CANVAS_HEIGHT
                                THEN "gameover" ELSE @,
                  !.tick = [op |-> "frame", deltaTime |-> deltaTime,
                            recycled |-> recycled, passed |-> passed]]

-----------------------------------------------------------------------------
(* Initial state and events of the component *)

Init ==
    \E r1 \in RandomDraws, r2 \in RandomDraws, r3 \in RandomDraws, r4 \in RandomDraws :
        /\ gameStarted = FALSE
        /\ board = getInitialBoard(r1, r2, r3, r4)
        /\ score = 0
        /\ bestScore = 0
        /\ gameOver = FALSE
        /\ handleKeyDown = [board |-> board, score |-> 0, bestScore |-> 0,
                            gameOver |-> FALSE]
        /\ last = [op |-> "mount", kind |-> "", direction |-> "",
                   delta |-> 0, placed |-> FALSE, wrote |-> FALSE, shared |-> FALSE]
        /\ trail = IF <<r1, r2, r3, r4>> = SessionStart THEN 0 ELSE -1
        /\ moves = 0
        /\ call = noCall
        /\ flappyBird = FlappyMount

\* A keydown event on window: the registered listener runs, then React
\* renders with the state it set.
KeyDown(key, r1, r2) ==
    \E res \in {keyDown(handleKeyDown, key, r1, r2)} :
    /\ res.accepted => (onSession(key, r1, r2) \/ moves < MaxMoves)
    /\ score' = IF res.accepted THEN res.score ELSE score
    /\ bestScore' = IF res.accepted /\ res.setBest THEN res.score ELSE bestScore
    /\ board' = IF res.accepted THEN res.board ELSE board
    /\ gameOver' = IF res.accepted /\ res.setGameOver THEN TRUE ELSE gameOver
    /\ handleKeyDown' = nextListener(res.accepted)
    /\ \E effect \in {keyDownMem(handleKeyDown, key, r1, r2)} :
          last' = [op |-> "keydown", kind |-> res.kind, direction |-> res.direction,
                   delta |-> res.delta, placed |-> res.placed,
                   wrote |-> wroteBoard(handleKeyDown.board, effect),
                   shared |-> sharesBoard(effect)]
    /\ trail' = IF ~res.accepted THEN trail
                ELSE IF onSession(key, r1, r2) THEN trail + 1 ELSE -1
    /\ moves' = IF res.accepted /\ ~onSession(key, r1, r2) THEN moves + 1 ELSE moves
    /\ UNCHANGED <<gameStarted, call, flappyBird>>

\* A call of the current render's handleMove with a string that is none of
\* the four directions, then the render.
HandleMove(direction, r1, r2) ==
    \E res \in {handleMove(Captured, direction, r1, r2)} :
    /\ res.accepted => moves < MaxMoves
    /\ score' = IF res.accepted THEN res.score ELSE score
    /\ bestScore' = IF res.accepted /\ res.setBest THEN res.score ELSE bestScore
    /\ board' = IF res.accepted THEN res.board ELSE board
    /\ gameOver' = IF res.accepted /\ res.setGameOver THEN TRUE ELSE gameOver
    /\ handleKeyDown' = nextListener(res.accepted)
    /\ \E effect \in {handleMoveMem(Captured, direction, r1, r2)} :
          last' = [op |-> "handleMove", kind |-> res.kind, direction |-> res.direction,
                   delta |-> res.delta, placed |-> res.placed,
                   wrote |-> wroteBoard(board, effect),
                   shared |-> sharesBoard(effect)]
    /\ trail' = IF res.accepted THEN -1 ELSE trail
    /\ moves' = IF res.accepted THEN moves + 1 ELSE moves
    /\ UNCHANGED <<gameStarted, call, flappyBird>>

\* newGame(): setBoard(getInitialBoard()); setScore(0); setGameOver(false)
newGame(r1, r2, r3, r4) ==
    /\ board' = getInitialBoard(r1, r2, r3, r4)
    /\ score' = 0
    /\ gameOver' = FALSE
    /\ UNCHANGED bestScore
    /\ handleKeyDown' = nextListener(TRUE)
    /\ trail' = -1
    /\ UNCHANGED <<moves, call, flappyBird>>

\* The Play button of the start overlay, rendered while !gameStarted.
ClickPlay ==
    /\ ~gameStarted
    /\ gameStarted' = TRUE
    /\ handleKeyDown' = handleKeyDown
    /\ last' = [op |-> "play", kind |-> "", direction |-> "",
                delta |-> 0, placed |-> FALSE, wrote |-> FALSE, shared |-> FALSE]
    /\ UNCHANGED <<board, score, bestScore, gameOver, trail, moves, call, flappyBird>>

\* The New Game button: newGame(); setGameStarted(true)
ClickNewGame(r1, r2, r3, r4) ==
    /\ newGame(r1, r2, r3, r4)
    /\ gameStarted' = TRUE
    /\ \E effect \in {newGameMem(board, r1, r2, r3, r4)} :
          last' = [op |-> "newGame", kind |-> "", direction |-> "",
                   delta |-> 0, placed |-> FALSE,
                   wrote |-> wroteBoard(board, effect),
                   shared |-> sharesBoard(effect)]

\* The Restart button of the game-over overlay, rendered while gameOver.
ClickRestart(r1, r2, r3, r4) ==
    /\ gameOver
    /\ newGame(r1, r2, r3, r4)
    /\ UNCHANGED gameStarted
    /\ \E effect \in {newGameMem(board, r1, r2, r3, r4)} :
          last' = [op |-> "restart", kind |-> "", direction |-> "",
                   delta |-> 0, placed |-> FALSE,
                   wrote |-> wroteBoard(board, effect),
                   shared |-> sharesBoard(effect)]

Next ==
    \/ \E key \in Keys, r1 \in RandomDraws, r2 \in RandomDraws : KeyDown(key, r1, r2)
    \/ \E direction \in OtherTokens, r1 \in RandomDraws, r2 \in RandomDraws :
          HandleMove(direction, r1, r2)
    \/ ClickPlay
    \/ \E r1 \in RandomDraws, r2 \in RandomDraws, r3 \in RandomDraws, r4 \in RandomDraws :
          ClickNewGame(r1, r2, r3, r4)
    \/ \E r1 \in RandomDraws, r2 \in RandomDraws, r3 \in RandomDraws, r4 \in RandomDraws :
          ClickRestart(r1, r2, r3, r4)

Spec == Init /\ [][Next]_vars

-----------------------------------------------------------------------------
(* Calls of the board functions on their own: SpecLine applies moveRowLeft *)
(* to every line over LineValues, SpecBoard applies the four moves,        *)
(* addRandomTile and isGameOver to every board of at most MaxTiles tiles   *)
(* and to the full patterns with at most MaxEdits cells changed, and to    *)
(* the boards that hold one line of Lines.  The                            *)
(* component's variables stay at the values of a component that handles no *)
(* event.                                                                  *)

Lines == [1..GRID_SIZE -> LineValues]

cellSet == {cellsInOrder[n] : n \in 1..(GRID_SIZE * GRID_SIZE)}

\* The board holding the tiles of the function tiles (cells -> values).
boardOf(tiles) ==
    arrayOf([i \in 1..GRID_SIZE |-> arrayOf([j \in 1..GRID_SIZE |->
        IF [x |-> i, y |-> j] \in DOMAIN tiles THEN tiles[[x |-> i, y |-> j]] ELSE 0])])

Boards ==
    UNION { { boardOf(tiles) : tiles \in [cells -> TileValues] } :
            cells \in {c \in SUBSET cellSet : Cardinality(c) <= MaxTiles} }

Idle ==
    /\ gameStarted = FALSE
    /\ board = emptyBoard
    /\ score = 0
    /\ bestScore = 0
    /\ gameOver = FALSE
    /\ handleKeyDown = [board |-> emptyBoard, score |-> 0, bestScore |-> 0,
                        gameOver |-> FALSE]
    /\ last = [op |-> "none", kind |-> "", direction |-> "",
               delta |-> 0, placed |-> FALSE, wrote |-> FALSE, shared |-> FALSE]
    /\ trail = -1
    /\ moves = 0

IdleVars == <<gameStarted, board, score, bestScore, gameOver, handleKeyDown,
              last, trail, moves>>

InitLine ==
    /\ Idle
    /\ flappyBird = FlappyMount
    /\ \E row \in Lines :
          call = [fn |-> "moveRowLeft", arg |-> row, done |-> FALSE,
                  ret |-> [newRow |-> <<>>, score |-> 0]]

CallMoveRowLeft ==
    /\ call.fn = "moveRowLeft"
    /\ ~call.done
    /\ call' = [call EXCEPT !.done = TRUE, !.ret = moveRowLeft(call.arg)]
    /\ UNCHANGED <<IdleVars, flappyBird>>

NextLine == CallMoveRowLeft

SpecLine == InitLine /\ [][NextLine]_vars

\* The boards that alternate a and b, cell by cell.
patternBoard(a, b) ==
    arrayOf([i \in 1..GRID_SIZE |-> arrayOf([j \in 1..GRID_SIZE |->
        IF (i + j) % 2 = 0 THEN a ELSE b])])

\* The board whose rows are all [a, b, a, b]: equal cells meet in columns only.
stripedBoard(a, b) ==
    arrayOf([i \in 1..GRID_SIZE |-> arrayOf([j \in 1..GRID_SIZE |->
        IF j % 2 = 1 THEN a ELSE b])])

FullPatterns ==
    {patternBoard(2, 4), patternBoard(4, 2), patternBoard(2, 2),
     stripedBoard(2, 4), transpose(stripedBoard(2, 4))}

\* The board b with the cells of the function tiles overwritten.
overwritten(b, tiles) ==
    arrayOf([i \in 1..GRID_SIZE |-> arrayOf([j \in 1..GRID_SIZE |->
        IF [x |-> i, y |-> j] \in DOMAIN tiles THEN tiles[[x |-> i, y |-> j]] ELSE b[i][j]])])

\* The full patterns with at most MaxEdits cells set to a value of LineValues.
NearFullBoards ==
    UNION { UNION { { overwritten(b, tiles) : tiles \in [cells -> LineValues] } :
                    cells \in {c \in SUBSET cellSet : Cardinality(c) <= MaxEdits} } :
            b \in FullPatterns }

\* The boards whose first row is a line of Lines and whose other cells are 0.
LineBoards ==
    { arrayOf([i \in 1..GRID_SIZE |-> IF i = 1 THEN row ELSE emptyBoard[i]]) :
        row \in Lines }

BoardInputs == Boards \cup NearFullBoards \cup LineBoards

InitBoard ==
    /\ Idle
    /\ flappyBird = FlappyMount
    /\ \E b \in BoardInputs : call = [fn |-> "", arg |-> b, done |-> FALSE]

\* heap is the memory of the argument's arrays after the call, out the
\* contents of the returned board, shared whether the returned board is the
\* argument or holds one of its rows.
CallMove(direction) ==
    /\ ~call.done
    /\ \E m \in {moveResultMem(direction, heapOf(call.arg), boardRef)} :
          call' = [fn |-> "move", direction |-> direction, arg |-> call.arg,
                   done |-> TRUE, ret |-> moveResult(direction, call.arg),
                   heap |-> SubSeq(m.mem, 1, boardRef),
                   out |-> boardAt(m.mem, m.newBoard),
                   shared |-> sharesBoard([mem |-> m.mem, set |-> m.newBoard])]
    /\ UNCHANGED <<IdleVars, flappyBird>>

CallAddRandomTile(r1, r2) ==
    /\ ~call.done
    /\ \E m \in {addRandomTileMem(heapOf(call.arg), boardRef, r1, r2)} :
          call' = [fn |-> "addRandomTile", r1 |-> r1, r2 |-> r2, arg |-> call.arg,
                   done |-> TRUE, ret |-> addRandomTile(call.arg, r1, r2),
                   heap |-> SubSeq(m.mem, 1, boardRef),
                   out |-> boardAt(m.mem, m.ref),
                   shared |-> sharesBoard([mem |-> m.mem, set |-> m.ref])]
    /\ UNCHANGED <<IdleVars, flappyBird>>

\* A move of the second module.
CallMoveFunc(direction) ==
    /\ ~call.done
    /\ call' = [fn |-> "moveFunc", direction |-> direction, arg |-> call.arg,
                done |-> TRUE, ret |-> moveFunc(direction, call.arg)]
    /\ UNCHANGED <<IdleVars, flappyBird>>

CallIsGameOver ==
    /\ ~call.done
    /\ call' = [fn |-> "isGameOver", arg |-> call.arg, done |-> TRUE,
                ret |-> isGameOver(call.arg)]
    /\ UNCHANGED <<IdleVars, flappyBird>>

NextBoard ==
    \/ \E direction \in Directions : CallMove(direction)
    \/ \E direction \in Directions : CallMoveFunc(direction)
    \/ \E r1 \in RandomDraws, r2 \in RandomDraws : CallAddRandomTile(r1, r2)
    \/ CallIsGameOver

SpecBoard == InitBoard /\ [][NextBoard]_vars

-----------------------------------------------------------------------------
(* Events of the FlappyBird component; the 2048 component handles none. *)

\* A recorded flight: start, two flaps with a pause between them, ten flaps
\* up to the top of the canvas, a descent through the gap of the first
\* pair, the fall to the ground and a new game.  Every initPipes and frame
\* of it draws 0, and its frames are 200 ms apart.
FlightScript ==
    LET C == [op |-> "click", delta |-> 0]
        P == [op |-> "pause", delta |-> 0]
        F == [op |-> "frame", delta |-> 200]
    IN  <<
        C, F, C, F, P, F, C, F, P, F, C, F,
        C, F, C, F, C, F, C, F, C, F, C, F,
        C, F, C, F, C, F, F, F, F, C, F, C,
        F, C, F, F, C, F, F, F, F, F, F, F,
        F, F, C
        >>

ScriptDraws == arrayOf([i \in 1..NUM_PIPES |-> 0])

\* The run is on the recorded flight and this step is the flight's next one.
onScript(op, delta, rs) ==
    /\ flappyBird.script >= 0
    /\ flappyBird.script < Len(FlightScript)
    /\ FlightScript[flappyBird.script + 1] = [op |-> op, delta |-> delta]
    /\ rs = ScriptDraws

\* The recorded flight is followed freely; at most MaxDetours steps are taken
\* away from it.
explored(s, op, delta, rs) ==
    IF onScript(op, delta, rs)
    THEN [s EXCEPT !.script = flappyBird.script + 1]
    ELSE [s EXCEPT !.script = 0 - 1, !.detours = flappyBird.detours + 1]

InitFlappy ==
    /\ Idle
    /\ call = noCall
    /\ flappyBird = FlappyMount

\* A click on the canvas: onClick={handleJump}
ClickCanvas(rs) ==
    /\ onScript("click", 0, rs) \/ flappyBird.detours < MaxDetours
    /\ flappyBird' = explored([handleJump(flappyBird, rs) EXCEPT
                                  !.tick = [noTick EXCEPT !.op = "click"]],
                              "click", 0, rs)
    /\ UNCHANGED <<IdleVars, call>>

\* The Pause / Resume button, rendered while gameState is running.
ClickPause ==
    /\ flappyBird.gameState = "running"
    /\ onScript("pause", 0, ScriptDraws) \/ flappyBird.detours < MaxDetours
    /\ flappyBird' = explored([togglePause(flappyBird) EXCEPT
                                  !.tick = [noTick EXCEPT !.op = "pause"]],
                              "pause", 0, ScriptDraws)
    /\ UNCHANGED <<IdleVars, call>>

\* The animation frame requested by the effect or by the frame before it;
\* one is pending exactly while gameState is running.
AnimationFrame(delta, rs) ==
    /\ flappyBird.gameState = "running"
    /\ onScript("frame", delta, rs) \/ flappyBird.detours < MaxDetours
    /\ flappyBird' = explored([updateGame(flappyBird, flappyBird.now + delta, rs) EXCEPT
                                  !.now = flappyBird.now + delta, !.frames = @ + 1],
                              "frame", delta, rs)
    /\ UNCHANGED <<IdleVars, call>>

NextFlappy ==
    \/ \E rs \in PipeDraws : ClickCanvas(rs)
    \/ ClickPause
    \/ \E delta \in FrameDeltas, rs \in PipeDraws : AnimationFrame(delta, rs)

SpecFlappy == InitFlappy /\ [][NextFlappy]_vars

-----------------------------------------------------------------------------
(* Properties *)

\* The step just taken, as last' records it.
MoveStep   == last'.op = "keydown" /\ last'.direction \in Directions
ResetStep  == last'.op \in {"newGame", "restart"}
Playing    == gameStarted /\ ~gameOver

RECURSIVE SumSeq(_)
SumSeq(s) == IF s = <<>> THEN 0 ELSE Head(s) + SumSeq(Tail(s))

Max(a, b) == IF a > b THEN a ELSE b

tileCount(b) ==
    Cardinality({c \in cellSet : b[c.x][c.y] # 0})

\* Exactly two tiles, each 2 or 4, every other cell 0.
TwoTiles(b) ==
    /\ tileCount(b) = 2
    /\ \A c \in cellSet : b[c.x][c.y] \in {0, 2, 4}

\* The line primitive as the design states it: on the line without its
\* zeros, a pair of equal neighbours becomes one doubled tile and the scan
\* goes on after the pair; any other tile is kept.
RECURSIVE mergePairs(_)
mergePairs(s) ==
    IF Len(s) < 2 THEN [line |-> s, score |-> 0]
    ELSE IF s[1] = s[2]
         THEN LET rest == mergePairs(SubSeq(s, 3, Len(s))) IN
              [line |-> <<2 * s[1]>> \o rest.line, score |-> 2 * s[1] + rest.score]
         ELSE LET rest == mergePairs(Tail(s)) IN
              [line |-> <<s[1]>> \o rest.line, score |-> rest.score]

slideAndMergeLine(line) ==
    LET merged == mergePairs(SelectSeq(line, LAMBDA v : v # 0)) IN
    [newRow |-> [i \in 1..GRID_SIZE |->
                    IF i <= Len(merged.line) THEN merged.line[i] ELSE 0],
     score  |-> merged.score]

\* C1: moveRowLeft returns, for every line of 4 cells, the line and the score
\* of the slide-and-merge procedure (compact, merge equal neighbours once
\* from the left, compact, pad); [2,2,2,2] gives ([4,4,0,0], 8), [2,0,2,2]
\* gives ([4,2,0,0], 4) and [4,4,4,4] gives ([8,8,0,0], 16).
C1_MoveRowLeftSlidesAndMerges ==
    (call.fn = "moveRowLeft" /\ call.done) =>
        /\ call.ret = slideAndMergeLine(call.arg)
        /\ call.arg = <<2, 2, 2, 2>> => call.ret = [newRow |-> <<4, 4, 0, 0>>, score |-> 8]
        /\ call.arg = <<2, 0, 2, 2>> => call.ret = [newRow |-> <<4, 2, 0, 0>>, score |-> 4]
        /\ call.arg = <<4, 4, 4, 4>> => call.ret = [newRow |-> <<8, 8, 0, 0>>, score |-> 16]

C1_Witness ==
    /\ call.fn = "moveRowLeft"
    /\ call.done
    /\ call.arg = <<2, 0, 2, 2>>
    /\ call.ret.newRow = <<4, 2, 0, 0>>

\* Each row read from its other end; rows and columns exchanged.
mirrored(b) == [i \in 1..GRID_SIZE |-> [j \in 1..GRID_SIZE |-> b[i][GRID_SIZE + 1 - j]]]
flipped(b)  == [i \in 1..GRID_SIZE |-> [j \in 1..GRID_SIZE |-> b[j][i]]]

\* C2: moveRight is mirror, moveLeft, mirror; moveUp is transpose, moveLeft,
\* transpose; moveDown is transpose, moveRight, transpose; each with the
\* score of the inner move.  A row [2,2,2,0] moved right becomes [0,0,2,4].
C2_MovesAreLeftMovesOfTurnedBoards ==
    (call.fn = "move" /\ call.done) =>
        /\ call.direction = "right" =>
              /\ call.ret.newBoard = mirrored(moveLeft(mirrored(call.arg)).newBoard)
              /\ call.ret.totalScore = moveLeft(mirrored(call.arg)).totalScore
              /\ \A i \in 1..GRID_SIZE :
                    call.arg[i] = <<2, 2, 2, 0>> => call.ret.newBoard[i] = <<0, 0, 2, 4>>
        /\ call.direction = "up" =>
              /\ call.ret.newBoard = flipped(moveLeft(flipped(call.arg)).newBoard)
              /\ call.ret.totalScore = moveLeft(flipped(call.arg)).totalScore
        /\ call.direction = "down" =>
              /\ call.ret.newBoard = flipped(moveRight(flipped(call.arg)).newBoard)
              /\ call.ret.totalScore = moveRight(flipped(call.arg)).totalScore
              /\ call.ret.newBoard =
                    flipped(mirrored(moveLeft(mirrored(flipped(call.arg))).newBoard))

C2_Witness ==
    /\ call.fn = "move"
    /\ call.done
    /\ call.direction = "right"
    /\ call.arg[1] = <<2, 2, 2, 0>>
    /\ call.ret.newBoard[1] = <<0, 0, 2, 4>>

\* C3: in Playing, a move whose moved board equals the board changes nothing
\* (board, score, bestScore, gameOver) and spawns no tile; a move is accepted
\* exactly when some cell of the moved board differs from the board.
C3_NoOpMoveChangesNothing ==
    [][ (MoveStep /\ Playing) =>
          LET moved == moveResult(last'.direction, board).newBoard IN
          /\ (last'.kind = "accepted") <=>
                (\E c \in cellSet : moved[c.x][c.y] # board[c.x][c.y])
          /\ (moved = board) =>
                /\ last'.kind = "noop"
                /\ ~last'.placed
                /\ board' = board
                /\ score' = score
                /\ bestScore' = bestScore
                /\ gameOver' = gameOver ]_vars

C3_Witness ==
    /\ Playing
    /\ last.op = "keydown"
    /\ last.kind = "noop"
    /\ moveResult(last.direction, board).newBoard = board

\* The lines of b in the order of travel for a direction.
travelLines(direction, b) ==
    CASE direction = "left"  -> b
      [] direction = "right" -> mirrored(b)
      [] direction = "up"    -> flipped(b)
      [] direction = "down"  -> mirrored(flipped(b))

\* The sum of the merged tile values over all lines.
scoreDelta(direction, b) ==
    SumSeq([i \in 1..GRID_SIZE |-> slideAndMergeLine(travelLines(direction, b)[i]).score])

\* C4: an accepted move in Playing adds the move's scoreDelta to score and
\* makes bestScore the larger of the old bestScore and the new score.
C4_AcceptedMoveScores ==
    [][ (MoveStep /\ Playing /\ last'.kind = "accepted") =>
          /\ score' = score + scoreDelta(last'.direction, board)
          /\ bestScore' = Max(bestScore, score') ]_vars

C4_Witness ==
    /\ gameStarted
    /\ last.op = "keydown"
    /\ last.kind = "accepted"
    /\ last.delta > 0
    /\ score < bestScore

\* C5: gameOver is true exactly when isGameOver holds of the current board
\* (the board that holds the newly spawned tile).
C5_GameOverIffBoardIsOver ==
    gameOver <=> isGameOver(board)

C5_Witness ==
    /\ gameOver
    /\ isGameOver(board)
    /\ last.op = "keydown"
    /\ last.kind = "accepted"

\* C6: while gameOver, every move is ignored (the handler returns at once):
\* board, score and bestScore keep their values, no tile is spawned, and
\* gameOver stays true until a reset.
C6_TerminalIgnoresMoves ==
    [][ gameOver =>
          /\ MoveStep =>
                /\ last'.kind = "ignored"
                /\ ~last'.placed
                /\ board' = board
                /\ score' = score
                /\ bestScore' = bestScore
          /\ ~gameOver' => ResetStep ]_vars

C6_Witness ==
    /\ gameOver
    /\ last.op = "keydown"
    /\ last.kind = "ignored"
    /\ last.direction \in Directions

\* C7: a reset gives a board of exactly two tiles (each 2 or 4, the other 14
\* cells 0), score 0, gameOver false, and the bestScore it found.
C7_ResetBuildsFreshGame ==
    [][ ResetStep =>
          /\ TwoTiles(board')
          /\ score' = 0
          /\ ~gameOver'
          /\ bestScore' = bestScore ]_vars

C7_Witness ==
    /\ last.op = "restart"
    /\ TwoTiles(board)
    /\ score = 0
    /\ bestScore > 0

\* C8: after any reset control gameStarted is true and gameOver is false.
C8_ResetLeadsToPlaying ==
    last.op \in {"newGame", "restart"} => (gameStarted /\ ~gameOver)

\* C9: when Play starts the game the board holds exactly two tiles and score
\* is 0, whatever events came before.
C9_PlayStartsOnFreshBoard ==
    last.op = "play" => (TwoTiles(board) /\ score = 0)

\* C10: no step lowers bestScore, and a reset leaves it unchanged.
C10_BestScoreNeverDecreases ==
    [][ /\ bestScore' >= bestScore
        /\ ResetStep => bestScore' = bestScore ]_vars

C10_Witness ==
    /\ last.op = "keydown"
    /\ last.kind = "accepted"
    /\ bestScore > score
    /\ moves > 0

\* C11: score is never negative and no step lowers it except a reset, which
\* sets it to 0.
C11_ScoreOnlyLoweredByReset ==
    [][ /\ score >= 0
        /\ score' >= 0
        /\ score' < score => ResetStep
        /\ ResetStep => score' = 0 ]_vars

C11_Witness ==
    /\ last.op = "keydown"
    /\ last.kind = "accepted"
    /\ last.delta > 0
    /\ score > last.delta

\* v is 2, 4, 8, 16, ...
RECURSIVE PowerOfTwo(_)
PowerOfTwo(v) ==
    \/ v = 2
    \/ (v > 2 /\ v % 2 = 0 /\ PowerOfTwo(v \div 2))

\* C12: in every reachable state the board has 4 rows of 4 cells, and each
\* cell is 0 or a power of two that is at least 2.
C12_BoardIsGridOfPowersOfTwo ==
    /\ Len(board) = 4
    /\ \A i \in 1..Len(board) :
          /\ Len(board[i]) = 4
          /\ \A j \in 1..Len(board[i]) : board[i][j] = 0 \/ PowerOfTwo(board[i][j])

C12_Witness ==
    /\ last.op = "keydown"
    /\ last.kind = "accepted"
    /\ \E c \in cellSet : board[c.x][c.y] >= 8
    /\ \E c \in cellSet : board[c.x][c.y] = 0

\* The sum of the 16 cells of a board.
boardSum(b) == SumSeq([n \in 1..(GRID_SIZE * GRID_SIZE) |->
                          b[cellsInOrder[n].x][cellsInOrder[n].y]])

\* C13: the board a move returns (before any tile is added) has the same
\* sum of cells as the board it was given, for every board and direction;
\* an addRandomTile call that places a tile raises the sum by the value of
\* the tile, 2 or 4.
C13_MovesKeepSumSpawnAddsTile ==
    /\ (call.fn = "move" /\ call.done) =>
          boardSum(call.ret.newBoard) = boardSum(call.arg)
    /\ (call.fn = "addRandomTile" /\ call.done /\ call.ret.placed) =>
          /\ boardSum(call.ret.ret) - boardSum(call.arg) \in {2, 4}
          /\ \E c \in cellSet :
                /\ call.arg[c.x][c.y] = 0
                /\ call.ret.ret[c.x][c.y] = boardSum(call.ret.ret) - boardSum(call.arg)

C13_Witness ==
    /\ call.fn = "move"
    /\ call.done
    /\ call.ret.totalScore > 0
    /\ call.ret.newBoard # call.arg
    /\ boardSum(call.ret.newBoard) = boardSum(call.arg)

\* Two cells that share an edge.
adjacent(c, d) ==
    \/ (c.x = d.x /\ (c.y - d.y = 1 \/ d.y - c.y = 1))
    \/ (c.y = d.y /\ (c.x - d.x = 1 \/ d.x - c.x = 1))

\* No cell is 0 and no two cells that share an edge hold the same value.
Terminal(b) ==
    /\ \A c \in cellSet : b[c.x][c.y] # 0
    /\ \A c \in cellSet, d \in cellSet : adjacent(c, d) => b[c.x][c.y] # b[d.x][d.y]

\* C14: isGameOver(b) is true exactly when no cell of b is 0 and no two
\* cells sharing an edge are equal; equal cells on a diagonal do not count,
\* so the full board alternating 2 and 4 is terminal.
C14_IsGameOverIffFullAndNoEqualNeighbours ==
    (call.fn = "isGameOver" /\ call.done) =>
        /\ call.ret <=> Terminal(call.arg)
        /\ call.arg = patternBoard(2, 4) => call.ret

C14_Witness ==
    /\ call.fn = "isGameOver"
    /\ call.done
    /\ call.arg = patternBoard(2, 4)
    /\ call.arg[1][1] = call.arg[2][2]
    /\ call.ret

\* C15: for every board the component holds, isGameOver(board) is true
\* exactly when none of the four moves returns a board that differs from it.
C15_GameOverIffNoMoveChangesBoard ==
    isGameOver(board) <=>
        \A direction \in Directions :
            arraysEqual(board, moveResult(direction, board).newBoard)

C15_Witness ==
    /\ isGameOver(board)
    /\ last.op = "keydown"
    /\ last.kind = "accepted"
    /\ \A direction \in Directions : moveResult(direction, board).newBoard = board

emptyCellSet(b) == {c \in cellSet : b[c.x][c.y] = 0}

changedCells(a, b) == {c \in cellSet : a[c.x][c.y] # b[c.x][c.y]}

\* C16: addRandomTile on a board with an empty cell returns a board that
\* differs from it in exactly one cell, which held 0 and now holds 2 or 4;
\* every empty cell and both values are outcomes of some pair of random
\* results; with exactly one empty cell that cell is filled; a board
\* without an empty cell is returned cell for cell.
C16_SpawnFillsOneEmptyCell ==
    /\ (call.fn = "addRandomTile" /\ call.done) =>
          LET changed == changedCells(call.arg, call.ret.ret) IN
          /\ emptyCellSet(call.arg) # {} =>
                /\ Cardinality(changed) = 1
                /\ \A c \in changed :
                      /\ call.arg[c.x][c.y] = 0
                      /\ call.ret.ret[c.x][c.y] \in {2, 4}
          /\ Cardinality(emptyCellSet(call.arg)) = 1 =>
                changed = emptyCellSet(call.arg)
          /\ emptyCellSet(call.arg) = {} =>
                \A c \in cellSet : call.ret.ret[c.x][c.y] = call.arg[c.x][c.y]
    /\ (call.fn = "" /\ ~call.done) =>
          \A c \in emptyCellSet(call.arg) : \A v \in {2, 4} :
              \E r1 \in SpawnDraws :
                  /\ addRandomTile(call.arg, r1, 0).ret[c.x][c.y] # 0
                  /\ \E r2 \in SpawnDraws :
                        addRandomTile(call.arg, r1, r2).ret =
                            [call.arg EXCEPT ![c.x][c.y] = v]

C16_Witness ==
    /\ call.fn = "addRandomTile"
    /\ call.done
    /\ Cardinality(emptyCellSet(call.arg)) = 1
    /\ emptyCellSet(call.ret.ret) = {}
    /\ call.ret.placed

\* C17: addRandomTile leaves the board passed to it untouched: after the
\* call the argument's array and its rows hold what they held before.
C17_AddRandomTileLeavesArgumentUntouched ==
    (call.fn = "addRandomTile" /\ call.done) =>
        /\ call.heap = heapOf(call.arg)
        /\ call.ret.arg = call.arg

\* C18: moveLeft, moveRight, moveUp and moveDown leave the board passed to
\* them untouched (its array and each of its rows hold what they held
\* before the call, also for right and down, which reverse rows) and return
\* a board that is made of new arrays.
C18_MovesLeaveArgumentUntouched ==
    (call.fn = "move" /\ call.done) =>
        /\ call.heap = heapOf(call.arg)
        /\ ~call.shared
        /\ call.out = call.ret.newBoard

C18_Witness ==
    /\ call.fn = "move"
    /\ call.done
    /\ call.direction \in {"right", "down"}
    /\ call.ret.newBoard # call.arg
    /\ \E i \in 1..GRID_SIZE : call.arg[i] # reverse(call.arg[i])
    /\ call.heap = heapOf(call.arg)

\* C19: no handler writes into the array of the board the component holds
\* or into one of its rows, and a board given to setBoard is a new array
\* made of new rows: every change of the board's contents comes as a new
\* board object.
C19_BoardObjectNeverWritten ==
    [][ /\ ~last'.wrote
        /\ ~last'.shared
        /\ board' # board => (last'.kind = "accepted" \/ ResetStep) ]_vars

C19_Witness ==
    /\ last.op = "keydown"
    /\ last.kind = "accepted"
    /\ last.direction \in {"right", "down"}
    /\ last.placed
    /\ ~last.wrote
    /\ ~last.shared

\* C20: a handleMove call with a string that is none of up, down, left and
\* right returns without setting anything: board, score, bestScore and
\* gameOver keep their values and no tile is added; a key outside the
\* listener's map does not reach handleMove and changes nothing either.
C20_OtherTokenChangesNothing ==
    [][ /\ (last'.op = "handleMove" /\ last'.direction \notin Directions) =>
              /\ last'.kind \in {"rejected", "ignored"}
              /\ gameOver => last'.kind = "ignored"
              /\ ~last'.placed
              /\ UNCHANGED <<board, score, bestScore, gameOver, gameStarted>>
        /\ (last'.op = "keydown" /\ last'.direction \notin Directions) =>
              /\ last'.kind = "nokey"
              /\ ~last'.placed
              /\ UNCHANGED <<board, score, bestScore, gameOver, gameStarted>> ]_vars

C20_Witness ==
    /\ last.op = "handleMove"
    /\ last.kind = "rejected"
    /\ last.direction = "diagonal"
    /\ Playing
    /\ score > 0
    /\ \E direction \in Directions : moveResult(direction, board).newBoard # board

\* C21: every keydown is handled by a listener that holds the board, score,
\* bestScore and gameOver of the current state, never older ones: a move is
\* accepted or found to change nothing by its effect on the current board,
\* an accepted move adds its scoreDelta to the current score, and no step
\* but an accepted move or a reset changes score (so score is the sum of the
\* scoreDeltas of the accepted moves since the last reset).
C21_MovesReadCommittedState ==
    [][ /\ handleKeyDown = Captured
        /\ handleKeyDown' = Captured'
        /\ (last'.op = "keydown" /\ last'.kind = "accepted") =>
              /\ moveResult(last'.direction, board).newBoard # board
              /\ score' = score + scoreDelta(last'.direction, board)
              /\ last'.delta = scoreDelta(last'.direction, board)
        /\ (last'.op = "keydown" /\ last'.kind = "noop") =>
              moveResult(last'.direction, board).newBoard = board
        /\ (last'.kind # "accepted" /\ ~ResetStep) => score' = score ]_vars

C21_Witness ==
    /\ last.op = "keydown"
    /\ last.kind = "accepted"
    /\ last.delta > 0
    /\ score > last.delta
    /\ handleKeyDown.score = score
    /\ handleKeyDown.board = board

\* A line on which a slide towards its first cell finds nothing to do: no
\* tile has a 0 before it and no two neighbouring tiles are equal.
settled(line) ==
    \A j \in 1..(GRID_SIZE - 1) :
        /\ line[j] = 0 => line[j + 1] = 0
        /\ line[j] # 0 => line[j] # line[j + 1]

\* C22: a move that returns a board equal to the one it was given returns
\* score 0, and the same move on the returned board returns it again with
\* score 0; a move returns an equal board exactly when every line, read in
\* the direction of travel, is compacted and has no two equal neighbouring
\* tiles.
C22_NoOpMoveIsStable ==
    (call.fn = "move" /\ call.done) =>
        /\ (call.ret.newBoard = call.arg) <=>
              \A i \in 1..GRID_SIZE : settled(travelLines(call.direction, call.arg)[i])
        /\ (call.ret.newBoard = call.arg) =>
              /\ call.ret.totalScore = 0
              /\ moveResult(call.direction, call.ret.newBoard) =
                    [newBoard |-> call.arg, totalScore |-> 0]

C22_Witness ==
    /\ call.fn = "move"
    /\ call.done
    /\ call.direction = "left"
    /\ call.ret.newBoard = call.arg
    /\ \E i \in 1..GRID_SIZE : call.arg[i][1] # 0 /\ call.arg[i][2] # 0

\* C23: a move that changes the board returns a board with an empty cell,
\* and the board stored by an accepted move differs from the moved board in
\* exactly one cell, which was empty and holds a new 2 or 4.
C23_AcceptedMoveAddsOneTile ==
    [][ (last'.op = "keydown" /\ last'.kind = "accepted") =>
          LET moved == moveResult(last'.direction, board).newBoard IN
          /\ moved # board
          /\ emptyCellSet(moved) # {}
          /\ last'.placed
          /\ Cardinality(changedCells(moved, board')) = 1
          /\ \A c \in changedCells(moved, board') :
                /\ moved[c.x][c.y] = 0
                /\ board'[c.x][c.y] \in {2, 4} ]_vars

C23_Witness ==
    /\ last.op = "keydown"
    /\ last.kind = "accepted"
    /\ last.placed
    /\ emptyCellSet(board) = {}
    /\ ~gameOver

\* C26: in every reachable state the board holds at least two tiles.
C26_BoardHoldsTwoTiles ==
    tileCount(board) >= 2

C26_Witness ==
    /\ last.op = "keydown"
    /\ last.kind = "accepted"
    /\ last.delta > 0
    /\ tileCount(board) = 2

\* C27: in every reachable state bestScore is at least score.
C27_BestScoreAtLeastScore ==
    bestScore >= score

C27_Witness ==
    /\ last.op = "keydown"
    /\ last.kind = "accepted"
    /\ last.delta > 0
    /\ bestScore = score
    /\ moves > 0
    /\ \E direction \in Directions : scoreDelta(direction, board) > 0

\* C28: on every line slideRow and moveRowLeft return the same line and the
\* same score, and each move of the second module returns the board and the
\* score that the move of Game2048.tsx returns for the same board and
\* direction.
C28_SlideRowAgreesWithMoveRowLeft ==
    (call.fn = "moveFunc" /\ call.done) =>
        /\ \A i \in 1..GRID_SIZE :
              LET line == travelLines(call.direction, call.arg)[i] IN
              /\ slideRow(line).newRow = moveRowLeft(line).newRow
              /\ slideRow(line).scoreGained = moveRowLeft(line).score
        /\ call.ret.board = moveResult(call.direction, call.arg).newBoard
        /\ call.ret.scoreGained = moveResult(call.direction, call.arg).totalScore

C28_Witness ==
    /\ call.fn = "moveFunc"
    /\ call.done
    /\ call.direction = "left"
    /\ call.arg[1] = <<2, 2, 2, 0>>
    /\ call.ret.board[1] = <<4, 2, 0, 0>>
    /\ call.ret.scoreGained = 4

C30_NotStartedIgnoresMoves ==
    [][ /\ (~gameStarted /\ MoveStep) =>
              UNCHANGED <<board, score, bestScore, gameOver>>
        /\ gameOver' => gameStarted' ]_vars

-----------------------------------------------------------------------------
(* The FlappyBird component: flap and scoring *)

ClickStep == flappyBird'.tick.op = "click"

FrameStep == flappyBird'.frames = flappyBird.frames + 1

Flying == flappyBird.gameState = "running" /\ ~flappyBird.paused

\* A click that found the game in start or gameover started a new game.
ResetsGame ==
    /\ flappyBird'.gameState = "running"
    /\ ~flappyBird'.paused
    /\ flappyBird'.birdRef = initialBird
    /\ flappyBird'.score = 0

\* The frame applied gravity to the velocity; nothing else raised it (the
\* ground may have stopped the falling bird).
GravityStep ==
    /\ FrameStep
    /\ Flying
    /\ LET velocityY == fall(flappyBird.birdRef.velocityY, flappyBird'.tick.deltaTime)
       IN  \/ flappyBird'.birdRef.velocityY = velocityY
           \/ /\ velocityY >= 0
              /\ flappyBird'.birdRef.velocityY = 0
              /\ flappyBird'.birdRef.y = CANVAS_HEIGHT - BIRD_RADIUS

\* The frame stopped the rising bird at the top of the canvas.
CeilingStep ==
    /\ FrameStep
    /\ Flying
    /\ flappyBird'.birdRef.velocityY = 0
    /\ flappyBird'.birdRef.y = BIRD_RADIUS

\* What every click does: the impulse while running and not paused, nothing
\* while paused, a new game in start and gameover.
ClickRule ==
    /\ (flappyBird'.tick.op = "click" /\ Flying)
          => flappyBird'.birdRef = [flappyBird.birdRef EXCEPT !.velocityY = FLAP_IMPULSE]
    /\ (flappyBird'.tick.op = "click" /\ flappyBird.gameState = "running"
                                     /\ flappyBird.paused)
          => flappyBird'.birdRef = flappyBird.birdRef
    /\ (flappyBird'.tick.op = "click" /\ flappyBird.gameState # "running")
          => ResetsGame

\* C24 (as stated): a click while running and not paused sets velocityY to
\* FLAP_IMPULSE whatever it was; a click while paused leaves the bird alone
\* and a click in start or gameover starts a new game; and apart from such a
\* new game, the velocity is raised by the gravity of a frame only.
C24_OnlyGravityRaisesVelocity ==
    [][ /\ ClickRule
        /\ flappyBird'.birdRef.velocityY > flappyBird.birdRef.velocityY
              => (GravityStep \/ (ClickStep /\ ResetsGame)) ]_vars

\* C24 (amended): a click while running and not paused sets velocityY to
\* FLAP_IMPULSE whatever it was; a click while paused leaves the bird alone
\* and a click in start or gameover starts a new game; and apart from such a
\* new game, the velocity is raised only by the gravity of a frame or by
\* the frame that stops the bird at the top of the canvas, which sets it
\* to 0.
C24_GravityOrCeilingRaisesVelocity ==
    [][ /\ ClickRule
        /\ flappyBird'.birdRef.velocityY > flappyBird.birdRef.velocityY
              => (GravityStep \/ CeilingStep \/ (ClickStep /\ ResetsGame)) ]_vars

\* A click gave the impulse to a bird that had already moved and was falling.
C24_Witness ==
    /\ flappyBird.tick.op = "click"
    /\ flappyBird.gameState = "running"
    /\ ~flappyBird.paused
    /\ flappyBird.birdRef.velocityY = FLAP_IMPULSE
    /\ flappyBird.birdRef.y > initialBird.y
    /\ flappyBird.frames >= 3

\* C25: a pair is scored at most once between two repositionings, in the
\* first frame that finds the bird's x beyond pipe.x + PIPE_WIDTH, and its
\* scored flag is cleared only by a repositioning (or a new game) that
\* puts the pair to the right of the bird.
C25_PairScoredOncePerPass ==
    [][ FrameStep =>
          /\ flappyBird'.score = flappyBird.score + Cardinality(flappyBird'.tick.passed)
          /\ \A i \in 1..Len(flappyBird.pipesRef) :
                /\ i \in flappyBird'.tick.passed
                      => /\ flappyBird'.pipesRef[i].scored
                         /\ (i \in flappyBird'.tick.recycled \/ ~flappyBird.pipesRef[i].scored)
                         /\ flappyBird'.birdRef.x * XScale
                               > flappyBird'.pipesRef[i].x + PIPE_WIDTH * XScale
                /\ (flappyBird.pipesRef[i].scored /\ ~flappyBird'.pipesRef[i].scored)
                      => i \in flappyBird'.tick.recycled
                /\ i \in flappyBird'.tick.recycled
                      => flappyBird'.pipesRef[i].x > flappyBird'.birdRef.x * XScale ]_vars

=============================================================================
